---- MODULE Spec2Model ----
(***************************************************************************)
(* A model of andy (src/andy.go): the "dpi" pipeline (resolve the asset's  *)
(* density and resource root, open and decode it, write a resized copy     *)
(* into every lower density bucket) and the "convert" command.             *)
(*                                                                         *)
(* A path string is modelled by the sequence strings.Split(path, "/")      *)
(* gives: "/w/res" is <<"", "w", "res">>, "res/x.png" is <<"res","x.png">>. *)
(* An absolute path is one whose first component is "".  A character       *)
(* string of the convert command is a sequence of one-character strings.   *)
(***************************************************************************)
EXTENDS Integers, Sequences, FiniteSets, TLC

VARIABLES
  cwd,      \* the process's working directory (absolute path)
  dirs,     \* the directories of the filesystem (absolute paths)
  files,    \* the regular files: absolute path -> content
            \*   (n >= 1: a PNG image n pixels wide, 0: not a PNG)
  files0,   \* the regular files when the current invocation started
  args,     \* the arguments of the dpi invocation
  argi,     \* index of the argument being processed
  pc,       \* "resolve", "open", "resize", "done" (exit 0), "fatal" (log.Fatal);
            \*   "idle" when the command run is convert
  info,     \* the DrawableInfo of the current argument
  img,      \* width of the decoded image of the current argument
  k,        \* position in densityPriorityList of the next resizeTo call (0-based)
  calls,    \* the resizeTo calls of this invocation, in order
  calls1,   \* the resizeTo calls of the previous invocation
  err,      \* the error that ended the invocation, "" when none
  run,      \* 1 in the first invocation, 2 in its repetition
  cargs,    \* the arguments of the convert invocation
  cpc,      \* "start", "done", "fatal" (log.Fatal), "panic" (runtime panic);
            \*   "idle" when the command run is dpi
  out       \* the lines convert printed: <<bucket name, pixel value in tenths>>

vars == <<cwd, dirs, files, files0, args, argi, pc, info, img, k, calls, calls1,
          err, run, cargs, cpc, out>>
dpiVars == <<cwd, dirs, files, files0, args, argi, pc, info, img, k, calls,
             calls1, err, run>>
convertVars == <<cargs, cpc, out>>

----------------------------------------------------------------------------
(* Bounds of the model *)

MaxWidth == 3
MaxLen == 5

----------------------------------------------------------------------------
(* Densities and the lookup tables, andy.go 27-71 *)

LDPI == 3
MDPI == 4
HDPI == 6
XHDPI == 8
XXHDPI == 12
XXXHDPI == 16

\* A Go map lookup of a missing key yields the zero value.
folderToDensity(folder) ==
  CASE folder = "drawable-mdpi"    -> MDPI
    [] folder = "drawable-hdpi"    -> HDPI
    [] folder = "drawable-xhdpi"   -> XHDPI
    [] folder = "drawable-xxhdpi"  -> XXHDPI
    [] folder = "drawable-xxxhdpi" -> XXXHDPI
    [] OTHER -> 0

densityToFolder(density) ==
  CASE density = MDPI    -> "drawable-mdpi"
    [] density = HDPI    -> "drawable-hdpi"
    [] density = XHDPI   -> "drawable-xhdpi"
    [] density = XXHDPI  -> "drawable-xxhdpi"
    [] density = XXXHDPI -> "drawable-xxxhdpi"
    [] OTHER -> ""

ascendingDensityList == <<MDPI, HDPI, XHDPI, XXHDPI, XXXHDPI>>

densityToCanonical(density) ==
  CASE density = MDPI    -> "mdpi"
    [] density = HDPI    -> "hdpi"
    [] density = XHDPI   -> "xhdpi"
    [] density = XXHDPI  -> "xxhdpi"
    [] density = XXXHDPI -> "xxxhdpi"
    [] OTHER -> ""

densityPriorityList ==
  <<"drawable-xxxhdpi", "drawable-xxhdpi", "drawable-xhdpi", "drawable-hdpi",
    "drawable-mdpi">>

----------------------------------------------------------------------------
(* Paths and the filesystem *)

Min(S) == CHOOSE x \in S : \A y \in S : x <= y

IsAbs(path) == Len(path) > 0 /\ path[1] = ""

\* filepath.Join: the parts joined by the separator and cleaned; an empty
\* component survives only as the leading one of an absolute path.
RECURSIVE DropEmpty(_)
DropEmpty(s) ==
  IF s = <<>> THEN <<>>
  ELSE IF Head(s) = "" THEN DropEmpty(Tail(s))
  ELSE <<Head(s)>> \o DropEmpty(Tail(s))

Join(a, b, c) ==
  LET all == a \o b \o c
  IN  IF all = <<>> THEN <<>> ELSE <<Head(all)>> \o DropEmpty(Tail(all))

\* The file a path names: a relative path is relative to the working directory.
Stat(path) == IF IsAbs(path) THEN path ELSE Join(cwd, path, <<>>)

fileExists(file) == Stat(file) \in DOMAIN files

dirExists(dir) == Stat(dir) \in dirs

tryGetAbsPath(path) == IF IsAbs(path) THEN path ELSE Join(cwd, path, <<>>)

ResDirGuesses == << <<"res">>, <<"src", "main", "res">> >>

guessResFolder ==
  LET hits == {i \in 1..Len(ResDirGuesses) : dirExists(ResDirGuesses[i])}
  IN  IF hits = {} THEN [err |-> "no folder found", folder |-> <<>>]
      ELSE [err |-> "", folder |-> ResDirGuesses[Min(hits)]]

extractResFolder(path) ==
  LET hits == {i \in 1..Len(path) : path[i] = "res"}
  IN  IF hits = {} THEN [err |-> "no folder found", folder |-> <<>>]
      ELSE [err |-> "", folder |-> SubSeq(path, 1, Min(hits))]

isDensityFolderNonNegative(folder) == folderToDensity(folder) >= 0

\* The guard of the scan of extractDensity: the component names a bucket.
isDensityFolder(folder) == folderToDensity(folder) > 0

extractDensity(path) ==
  LET hits == {i \in 1..Len(path) : isDensityFolder(path[i])}
  IN  IF hits = {} THEN [err |-> "no density found", density |-> 0]
      ELSE [err |-> "", density |-> folderToDensity(path[Min(hits)])]

probeOrderAscending ==
  [i \in 1..Len(densityPriorityList) |->
     densityPriorityList[Len(densityPriorityList) + 1 - i]]

\* The order in which findHighestDensity probes the bucket folders.
probeOrder == densityPriorityList

findHighestDensity(resFolder, filename) ==
  LET hits == {i \in 1..Len(probeOrder) :
                 fileExists(Join(resFolder, <<probeOrder[i]>>, filename))}
  IN  IF hits = {} THEN [err |-> "no density found", density |-> 0]
      ELSE [err |-> "", density |-> folderToDensity(probeOrder[Min(hits)])]

NoInfo == [ResFolder |-> <<>>, Density |-> 0, Filename |-> <<>>]

getDrawableInfo(path) ==
  LET absPath == tryGetAbsPath(path)
  IN  IF fileExists(absPath)
      THEN LET r == extractResFolder(absPath)
               d == extractDensity(absPath)
           IN  IF r.err # "" THEN [err |-> r.err, info |-> NoInfo]
               ELSE IF d.err # "" THEN [err |-> d.err, info |-> NoInfo]
               ELSE [err |-> "",
                     info |-> [ResFolder |-> tryGetAbsPath(r.folder),
                               Density |-> d.density,
                               Filename |-> <<path[Len(path)]>>]]
      ELSE LET r == guessResFolder
               d == findHighestDensity(r.folder, path)
           IN  IF r.err # "" THEN [err |-> r.err, info |-> NoInfo]
               ELSE IF d.err # "" THEN [err |-> d.err, info |-> NoInfo]
               ELSE [err |-> "",
                     info |-> [ResFolder |-> tryGetAbsPath(r.folder),
                               Density |-> d.density,
                               Filename |-> path]]

\* The path the dpi command opens and decodes.
assetPath(drawableInfo) ==
  Join(drawableInfo.ResFolder, <<densityToFolder(drawableInfo.Density)>>,
       drawableInfo.Filename)

startingDensityOffByOne(density) ==
  LET hits == {i \in 0..(Len(densityPriorityList) - 1) :
                 folderToDensity(densityPriorityList[i + 1]) = density}
  IN  IF hits = {} THEN 0 ELSE Min(hits)

startingDensityFromTop(density) == 0

\* The slice index resizeToFolders starts from (0 when no folder matches).
startingDensity(density) ==
  LET hits == {i \in 0..(Len(densityPriorityList) - 1) :
                 folderToDensity(densityPriorityList[i + 1]) = density}
  IN  IF hits = {} THEN 0 ELSE Min(hits) + 1

resizeWidthRounded(width, targetDensity, density) ==
  (2 * width * targetDensity + density) \div (2 * density)

\* uint(float64(width) * float64(targetDensity) / float64(density)): the
\* product is exact, the quotient is not within 1/16 of an integer unless it
\* is one, and the conversion to uint truncates.
resizeWidth(width, targetDensity, density) ==
  (width * targetDensity) \div density

\* resize.Resize(w, 0, img, ...) of the resampling library: the height follows
\* the aspect ratio; with a requested width of 0 the image is returned as it is.
\* The result is given by its width: w is the width requested, width that of img.
Resize(w, width) == IF w = 0 THEN width ELSE w

targetPath(drawableInfo, folder) ==
  Join(drawableInfo.ResFolder, <<folder>>, drawableInfo.Filename)

Parent(path) == SubSeq(path, 1, Len(path) - 1)

\* os.Create: the parent directory exists and the path is no directory.
createOk(path) == Parent(path) \in dirs /\ path \notin dirs

afterCreateIgnored(ok) == "encode"

\* resizeTo after os.Create: log.Fatal on an error, else encode and return.
afterCreate(ok) == IF ok THEN "encode" ELSE "fatal"

\* os.Open succeeds on a regular file and on a directory.
openOk(path) == Stat(path) \in DOMAIN files \/ Stat(path) \in dirs

\* png.Decode succeeds on the content of a PNG file.
decodeOk(path) == Stat(path) \in DOMAIN files /\ files[Stat(path)] >= 1

----------------------------------------------------------------------------
(* The filesystems and command lines the invocations start from *)

Buckets == {densityPriorityList[i] : i \in 1..Len(densityPriorityList)}

W == <<"", "w">>                       \* a project with ./res
V == <<"", "v">>                       \* a project with ./src/main/res
U == <<"", "u">>                       \* a directory with neither
ResW == W \o <<"res">>
ResV == V \o <<"src", "main", "res">>

StdFile(bucket) == ResW \o <<bucket, "icon.png">>

MultiBucket == ResW \o <<"drawable-hdpi", "drawable-mdpi", "icon.png">>
NestedRes == ResW \o <<"app", "res", "drawable-hdpi", "icon.png">>
NoBucket == ResW \o <<"icon.png">>
NoRes == <<"", "tmp", "icon.png">>
GradleFile == ResV \o <<"drawable-xhdpi", "icon.png">>

FixedFiles == {MultiBucket, NestedRes, NoBucket, NoRes, GradleFile}

Prefixes(path) == {SubSeq(path, 1, n) : n \in 1..(Len(path) - 1)}

FixedDirs ==
  UNION {Prefixes(f) : f \in FixedFiles} \cup {U}
    \cup {ResV \o <<b>> : b \in Buckets}

Widths == (1..MaxWidth) \cup {480}

ArgChoices ==
  { <<"icon.png">>,
    <<"res", "drawable-xhdpi", "icon.png">>,
    MultiBucket, NestedRes, NoBucket, NoRes }

ArgLists ==
  {<<>>} \cup {<<a>> : a \in ArgChoices}
    \cup {<<a, b>> : a \in ArgChoices, b \in ArgChoices}

InitFiles(present, w, bad) ==
  [p \in FixedFiles \cup {StdFile(b) : b \in present} |->
     IF p = StdFile(bad) THEN 0 ELSE w]

InitDirs(missing) ==
  FixedDirs \cup {ResW \o <<b>> : b \in Buckets \ {missing}}

InitConvertIdle == cargs = <<>> /\ cpc = "idle" /\ out = <<>>

Init ==
  /\ \E c \in {W, V, U}, present \in SUBSET Buckets, w \in Widths :
       \E bad \in present \cup {"none"},
          missing \in ((Buckets \ present) \ {"drawable-hdpi"}) \cup {"none"} :
         /\ c # W => (present = {} /\ missing = "none")
         /\ cwd = c
         /\ dirs = InitDirs(missing)
         /\ files = InitFiles(present, w, bad)
  /\ files0 = files
  /\ args \in ArgLists
  /\ argi = 1
  /\ pc = "resolve"
  /\ info = NoInfo
  /\ img = 0
  /\ k = 0
  /\ calls = <<>>
  /\ calls1 = <<>>
  /\ err = ""
  /\ run = 1
  /\ InitConvertIdle

----------------------------------------------------------------------------
(* The dpi command, andy.go 204-224 *)

\* The end of one iteration of the loop over the arguments.
Advance ==
  IF argi < Len(args)
  THEN argi' = argi + 1 /\ pc' = "resolve"
  ELSE argi' = argi /\ pc' = "done"

Fatal(e) == pc' = "fatal" /\ err' = e

\* if len(args) < 1 { log.Fatal(...) }
NoArguments ==
  /\ pc = "resolve" /\ Len(args) < 1
  /\ Fatal("need one or more filenames.")
  /\ UNCHANGED <<cwd, dirs, files, files0, args, argi, info, img, k, calls,
                 calls1, run>>
  /\ UNCHANGED convertVars

\* drawableInfo, err := getDrawableInfo(arg)
GetDrawableInfo ==
  /\ pc = "resolve" /\ Len(args) >= 1
  /\ LET r == getDrawableInfo(args[argi])
     IN  IF r.err # ""
         THEN Fatal(r.err) /\ UNCHANGED info
         ELSE info' = r.info /\ pc' = "open" /\ UNCHANGED err
  /\ UNCHANGED <<cwd, dirs, files, files0, args, argi, img, k, calls, calls1, run>>
  /\ UNCHANGED convertVars

\* os.Open(assetPath), png.Decode(file) and the index scan of resizeToFolders
OpenDecode ==
  /\ pc = "open"
  /\ LET p == assetPath(info)
         s == startingDensity(info.Density)
     IN  IF ~openOk(p)
         THEN Fatal("open failed") /\ UNCHANGED <<img, k, argi>>
         ELSE IF ~decodeOk(p)
         THEN Fatal("decode failed") /\ UNCHANGED <<img, k, argi>>
         ELSE /\ img' = files[Stat(p)]
              /\ k' = s
              /\ IF s < Len(densityPriorityList)
                 THEN pc' = "resize" /\ argi' = argi
                 ELSE Advance
              /\ UNCHANGED err
  /\ UNCHANGED <<cwd, dirs, files, files0, args, info, calls, calls1, run>>
  /\ UNCHANGED convertVars

\* One call resizeTo(drawableInfo, img, folder) of the loop of resizeToFolders
ResizeTo ==
  /\ pc = "resize"
  /\ LET folder == densityPriorityList[k + 1]
         targetDensity == folderToDensity(folder)
         tp == targetPath(info, folder)
         width == resizeWidth(img, targetDensity, info.Density)
         ok == createOk(tp)
         call == [arg |-> argi, density |-> info.Density, img |-> img,
                  folder |-> folder, path |-> tp, width |-> width, ok |-> ok]
     IN  /\ calls' = Append(calls, call)
         /\ IF afterCreate(ok) = "fatal"
            THEN Fatal("create failed") /\ UNCHANGED <<files, k, argi>>
            ELSE /\ files' = IF ok
                             THEN [q \in DOMAIN files \cup {tp} |->
                                     IF q = tp THEN Resize(width, img) ELSE files[q]]
                             ELSE files
                 /\ k' = k + 1
                 /\ IF k + 1 < Len(densityPriorityList)
                    THEN pc' = "resize" /\ argi' = argi
                    ELSE Advance
                 /\ UNCHANGED err
  /\ UNCHANGED <<cwd, dirs, files0, args, info, img, calls1, run>>
  /\ UNCHANGED convertVars

\* The user runs the same command line again.
Rerun ==
  /\ pc = "done" /\ run = 1
  /\ run' = 2
  /\ files0' = files
  /\ calls1' = calls
  /\ calls' = <<>>
  /\ argi' = 1
  /\ pc' = "resolve"
  /\ UNCHANGED <<cwd, dirs, files, args, info, img, k, err>>
  /\ UNCHANGED convertVars

Next == NoArguments \/ GetDrawableInfo \/ OpenDecode \/ ResizeTo \/ Rerun

Spec == Init /\ [][Next]_vars

----------------------------------------------------------------------------
(* The convert command, andy.go 230-239 *)

Digits == {"0", "2", "3", "8"}
Chars == Digits \cup {"d", "p", ".", "x"}

Strings == UNION {[1..n -> Chars] : n \in 0..MaxLen}

DigitValue(c) ==
  CASE c = "0" -> 0 [] c = "1" -> 1 [] c = "2" -> 2 [] c = "3" -> 3
    [] c = "4" -> 4 [] c = "5" -> 5 [] c = "6" -> 6 [] c = "7" -> 7
    [] c = "8" -> 8 [] c = "9" -> 9

\* Where the pattern (\d+)dp matches with its digits at s[i..j].
MatchAt(s, i, j) ==
  /\ i <= j /\ j + 2 <= Len(s)
  /\ \A n \in i..j : s[n] \in Digits
  /\ s[j + 1] = "d" /\ s[j + 2] = "p"

\* dpRegex.FindStringSubmatch(s)[1]: the digits of the leftmost match; no
\* match gives a nil slice, and indexing it panics.
FindStringSubmatch(s) ==
  LET starts == {i \in 1..Len(s) : \E j \in i..Len(s) : MatchAt(s, i, j)}
  IN  IF starts = {} THEN [match |-> FALSE, group |-> <<>>]
      ELSE LET i == Min(starts)
               j == CHOOSE n \in i..Len(s) : MatchAt(s, i, n)
           IN  [match |-> TRUE, group |-> SubSeq(s, i, j)]

RECURSIVE ParseDigits(_, _, _)
\* The digits of s read in the base, most significant first, from acc;
\* -1 when a digit is not one of the base.
ParseDigits(s, base, acc) ==
  IF s = <<>> THEN acc
  ELSE IF DigitValue(Head(s)) >= base THEN -1
  ELSE ParseDigits(Tail(s), base, acc * base + DigitValue(Head(s)))

\* strconv.ParseInt(s, 0, 0) of a string of digits: base 0 reads a leading
\* "0" as the octal prefix; a syntax error returns 0 (and an error the
\* command drops).
ParseInt(s) ==
  LET octal == Head(s) = "0"
      n == IF octal THEN ParseDigits(Tail(s), 8, 0) ELSE ParseDigits(s, 10, 0)
  IN  IF n < 0 THEN [value |-> 0, err |-> "invalid syntax"]
      ELSE [value |-> n, err |-> ""]

pxTenthsFromLDPI(dpValue, density) == (dpValue * density * 10) \div LDPI

\* float64(dpValue) / float64(MDPI) * float64(density) as "%.1f" prints it,
\* in tenths of a pixel: the value is a multiple of 0.5, so both the floating
\* point arithmetic and the formatting are exact.
pxTenths(dpValue, density) == (dpValue * density * 10) \div MDPI

Lines(dpValue) ==
  [i \in 1..Len(ascendingDensityList) |->
     <<densityToCanonical(ascendingDensityList[i]),
       pxTenths(dpValue, ascendingDensityList[i])>>]

InitDpiIdle ==
  /\ cwd = W /\ dirs = {} /\ files = <<>> /\ files0 = <<>>
  /\ args = <<>> /\ argi = 1 /\ pc = "idle" /\ info = NoInfo /\ img = 0
  /\ k = 0 /\ calls = <<>> /\ calls1 = <<>> /\ err = "" /\ run = 1

InitConvert ==
  /\ cargs \in {<<>>} \cup {<<s>> : s \in Strings}
                \cup {<<s, s>> : s \in [1..1 -> Chars]}
  /\ cpc = "start"
  /\ out = <<>>
  /\ InitDpiIdle

Convert ==
  /\ cpc = "start"
  /\ IF Len(cargs) # 1
     THEN cpc' = "fatal" /\ out' = out
     ELSE LET m == FindStringSubmatch(cargs[1])
          IN  IF ~m.match
              THEN cpc' = "panic" /\ out' = out
              ELSE cpc' = "done" /\ out' = Lines(ParseInt(m.group).value)
  /\ UNCHANGED cargs
  /\ UNCHANGED dpiVars

NextConvert == Convert

SpecConvert == InitConvert /\ [][NextConvert]_vars

----------------------------------------------------------------------------
(* Vocabulary of the properties *)

DensitySet == {MDPI, HDPI, XHDPI, XXHDPI, XXXHDPI}

Max(S) == CHOOSE x \in S : \A y \in S : x >= y

RECURSIVE Descending(_)
\* The densities of a set, highest first.
Descending(S) ==
  IF S = {} THEN <<>> ELSE <<Max(S)>> \o Descending(S \ {Max(S)})

\* The bucket folders of the densities strictly below D, highest first.
Below(D) ==
  LET ds == Descending({d \in DensitySet : d < D})
  IN  [j \in 1..Len(ds) |-> densityToFolder(ds[j])]

CallsOf(cs, i) == SelectSeq(cs, LAMBDA c : c.arg = i)

FoldersOf(cs, i) ==
  LET sel == CallsOf(cs, i) IN [j \in 1..Len(sel) |-> sel[j].folder]

IsPrefix(s, t) == Len(s) <= Len(t) /\ s = SubSeq(t, 1, Len(s))

\* The current argument has just been resolved (or has just failed to).
Resolved ==
  \/ pc = "open"
  \/ pc = "fatal" /\ err \in {"no folder found", "no density found"}

CurArg == args[argi]
CurAbs == IF IsAbs(CurArg) THEN CurArg ELSE cwd \o CurArg
CurIsFile == CurAbs \in DOMAIN files

\* C1: for every source density D, resizeToFolders calls resizeTo for exactly
\* the bucket folders of the densities strictly below D, each once, highest
\* first down to drawable-mdpi, and for D = MDPI for none: while an argument
\* is fanned out its calls are a prefix of that list, and when the argument
\* is finished they are the whole list.
C1_FanOutBelowSource ==
  [][ /\ (pc \in {"open", "resize"} /\ pc' \in {"resize", "fatal"})
         => IsPrefix(FoldersOf(calls', argi), Below(info.Density))
      /\ (pc \in {"open", "resize"} /\ pc' \in {"resolve", "done"})
         => /\ info.Density \in DensitySet
            /\ FoldersOf(calls', argi) = Below(info.Density)
            /\ \A j \in 1..Len(calls') :
                 calls'[j].arg = argi => calls'[j].density = info.Density ]_vars

C1_Witness ==
  /\ pc = "done"
  /\ FoldersOf(calls, 1) =
       <<"drawable-xxhdpi", "drawable-xhdpi", "drawable-hdpi", "drawable-mdpi">>

\* C2 (as claimed): the width resizeTo requests is a nearest integer to
\* w * T / S.
C2_WidthIsRounded ==
  \A j \in 1..Len(calls) :
    LET c == calls[j]
        T == folderToDensity(c.folder)
        diff == c.width * c.density - c.img * T
    IN  2 * (IF diff < 0 THEN -diff ELSE diff) <= c.density

\* C2 (amended): the width resizeTo requests is w * T / S truncated to an
\* integer, the largest n with n * S <= w * T; 480 at 12 resized to 4 gives 160.
C2_WidthIsTruncated ==
  \A j \in 1..Len(calls) :
    LET c == calls[j]
        T == folderToDensity(c.folder)
    IN  /\ T < c.density
        /\ c.width >= 0
        /\ c.width * c.density <= c.img * T
        /\ c.img * T < (c.width + 1) * c.density
        /\ (c.img = 480 /\ c.density = XXHDPI /\ T = MDPI) => c.width = 160

C2_Witness ==
  \E j \in 1..Len(calls) :
    /\ calls[j].img = 1 /\ calls[j].density = XXXHDPI
    /\ calls[j].folder = "drawable-xxhdpi" /\ calls[j].width = 0

\* C3: for an argument that is an existing regular file whose path has a
\* component "res" and whose folder is a density bucket, getDrawableInfo
\* returns the density of the bucket folder the file sits in.
C3_DensityOfOwnBucket ==
  (/\ Resolved /\ CurIsFile
   /\ \E i \in 1..Len(CurAbs) : CurAbs[i] = "res"
   /\ CurAbs[Len(CurAbs) - 1] \in Buckets)
  => (pc = "open" /\ info.Density = folderToDensity(CurAbs[Len(CurAbs) - 1]))

\* The resource root guessResFolder is specified to find, as a path.
GuessedRoot ==
  IF cwd \o <<"res">> \in dirs THEN cwd \o <<"res">>
  ELSE cwd \o <<"src", "main", "res">>

PresentDensities(root, name) ==
  {d \in DensitySet : root \o <<densityToFolder(d)>> \o name \in DOMAIN files}

\* C4: for a bare filename that is no existing file, the buckets are probed
\* from the highest density to the lowest and the descriptor has the highest
\* density that holds a file of that name under the guessed resource root.
C4_HighestPresent ==
  /\ \A i, j \in 1..Len(probeOrder) :
       i < j => folderToDensity(probeOrder[i]) > folderToDensity(probeOrder[j])
  /\ (/\ Resolved /\ ~CurIsFile /\ Len(CurArg) = 1
      /\ GuessedRoot \in dirs
      /\ PresentDensities(GuessedRoot, CurArg) # {})
     => /\ pc = "open"
        /\ info.Density = Max(PresentDensities(GuessedRoot, CurArg))
        /\ info.ResFolder = GuessedRoot
        /\ info.Filename = CurArg

C4_Witness ==
  /\ pc = "open" /\ ~CurIsFile /\ Len(CurArg) = 1
  /\ PresentDensities(GuessedRoot, CurArg) = {HDPI, XXHDPI}
  /\ info.Density = XXHDPI

\* The resource roots the path of the current argument offers.
LocatableRoots ==
  IF CurIsFile
  THEN {SubSeq(CurAbs, 1, i) : i \in {n \in 1..Len(CurAbs) : CurAbs[n] = "res"}}
  ELSE {GuessedRoot} \cap dirs

NoDensityAnywhere ==
  /\ LocatableRoots # {}
  /\ \A i \in 1..Len(CurAbs) : CurAbs[i] \notin Buckets
  /\ \A root \in LocatableRoots :
       PresentDensities(root, IF CurIsFile THEN <<CurAbs[Len(CurAbs)]>> ELSE CurArg) = {}

\* C5: with a locatable resource root, no bucket folder name in the path and
\* no bucket folder holding a file of that name, getDrawableInfo fails with
\* "no density found" and nothing is resized for the argument; a descriptor
\* it returns has one of the five densities.
C5_NoDensityFound ==
  /\ (Resolved /\ NoDensityAnywhere)
     => (pc = "fatal" /\ err = "no density found" /\ CallsOf(calls, argi) = <<>>)
  /\ pc \in {"open", "resize"} => info.Density \in DensitySet
  /\ \A j \in 1..Len(calls) : calls[j].density \in DensitySet

C5_Witness ==
  /\ pc = "fatal" /\ err = "no density found" /\ NoDensityAnywhere
  /\ CurIsFile /\ argi = 2 /\ calls # <<>>

\* C7: when the first run of a command line succeeds, the second run
\* succeeds and leaves the filesystem as the first run left it, resolving the
\* same source buckets and writing the same target files; run on one
\* argument, it requests the same widths too (all its calls are the same).
C7_SecondRunSame ==
  (run = 2 /\ pc \in {"done", "fatal"})
  => /\ pc = "done"
     /\ files = files0
     /\ Len(calls) = Len(calls1)
     /\ \A j \in 1..Len(calls) :
          /\ calls[j].density = calls1[j].density
          /\ calls[j].path = calls1[j].path
     /\ Len(args) = 1 => calls = calls1

C7_Witness ==
  /\ run = 2 /\ pc = "done" /\ Len(args) = 1
  /\ Len(calls) = 4 /\ calls = calls1

\* C8: the arguments are processed in order and the first error ends the
\* process: a failed create is the last call made, no call belongs to a later
\* argument, nothing runs after the error, and the filesystem is the initial
\* one with the files of the successful calls written.
C8_FirstErrorAborts ==
  /\ \A j \in 1..Len(calls) :
       /\ calls[j].arg <= argi
       /\ \A i \in 1..j : calls[i].arg <= calls[j].arg
       /\ ~calls[j].ok => (j = Len(calls) /\ pc = "fatal" /\ err = "create failed")
  /\ err # "" <=> pc = "fatal"
  /\ pc = "fatal" =>
       /\ ~ENABLED Next
       /\ DOMAIN files0 \subseteq DOMAIN files
       /\ \A j \in 1..Len(calls) : calls[j].ok => calls[j].path \in DOMAIN files
       /\ \A p \in DOMAIN files :
            (\A j \in 1..Len(calls) : calls[j].ok => calls[j].path # p)
            => (p \in DOMAIN files0 /\ files[p] = files0[p])
       /\ err = "create failed" =>
            \A d \in DensitySet :
              d <= folderToDensity(calls[Len(calls)].folder) =>
                LET p == targetPath(info, densityToFolder(d))
                IN  \A j \in 1..Len(calls) :
                      (calls[j].arg = argi /\ calls[j].ok) => calls[j].path # p

C8_Witness ==
  /\ pc = "fatal" /\ err = "create failed" /\ argi = 2
  /\ CallsOf(calls, 1) # <<>>
  /\ Len(CallsOf(calls, 2)) >= 2

\* C10: for an argument that is an existing regular file, the asset path the
\* dpi command opens is the file the user named.
C10_OpensTheNamedFile ==
  (pc = "open" /\ CurIsFile) => Stat(assetPath(info)) = CurAbs

Str30dp == <<"3", "0", "d", "p">>

\* A decimal numeral without a leading zero, followed by "dp".
IsCanonicalDp(s) ==
  /\ Len(s) >= 3
  /\ s[Len(s) - 1] = "d" /\ s[Len(s)] = "p"
  /\ \A n \in 1..(Len(s) - 2) : s[n] \in Digits
  /\ (Len(s) > 3 => s[1] # "0")

RECURSIVE DecimalValue(_)
DecimalValue(ds) ==
  IF ds = <<>> THEN 0
  ELSE DecimalValue(SubSeq(ds, 1, Len(ds) - 1)) * 10 + DigitValue(ds[Len(ds)])

BucketNames == <<"mdpi", "hdpi", "xhdpi", "xxhdpi", "xxxhdpi">>

\* The lines convert is to print for the value v: one per bucket, ascending,
\* each v / 4 * density (here in tenths of a pixel).
PixelLines(lines, v) ==
  /\ Len(lines) = 5
  /\ \A i \in 1..5 :
       /\ lines[i][1] = BucketNames[i]
       /\ 4 * lines[i][2] = v * ascendingDensityList[i] * 10
  /\ \A i \in 1..4 : ascendingDensityList[i] < ascendingDensityList[i + 1]

\* C6: for a non-negative integer v written "<v>dp", convert prints one line
\* per bucket in the order mdpi, hdpi, xhdpi, xxhdpi, xxxhdpi with the value
\* v / 4 * density; for 30dp these are 30.0, 45.0, 60.0, 90.0, 120.0.
C6_ConvertLines ==
  (cpc # "start" /\ Len(cargs) = 1 /\ IsCanonicalDp(cargs[1]))
  => /\ cpc = "done"
     /\ PixelLines(out, DecimalValue(SubSeq(cargs[1], 1, Len(cargs[1]) - 2)))
     /\ cargs[1] = Str30dp =>
          out = << <<"mdpi", 300>>, <<"hdpi", 450>>, <<"xhdpi", 600>>,
                   <<"xxhdpi", 900>>, <<"xxxhdpi", 1200>> >>

C6_Witness ==
  /\ cpc = "done" /\ cargs = <<Str30dp>>
  /\ out[5] = <<"xxxhdpi", 1200>>

\* The whole argument is digits followed by "dp".
IsWholeIntDp(s) ==
  /\ Len(s) >= 3
  /\ s[Len(s) - 1] = "d" /\ s[Len(s)] = "p"
  /\ \A n \in 1..(Len(s) - 2) : s[n] \in Digits

\* C9: convert accepts its argument only when the whole of it is an integer
\* followed by "dp", and then prints the lines of that integer; any other
\* argument ends in an error with no pixel line printed.
C9_RejectsMalformed ==
  (cpc # "start" /\ Len(cargs) = 1)
  => IF IsWholeIntDp(cargs[1])
     THEN /\ cpc = "done"
          /\ PixelLines(out, DecimalValue(SubSeq(cargs[1], 1, Len(cargs[1]) - 2)))
     ELSE cpc # "done" /\ out = <<>>

====
